---------------------------- MODULE Spec2Model ----------------------------
(***************************************************************************)
(* Leaderboard server: the Player and Application stores and the HTTP      *)
(* handlers of server.ts that write them, with the review (promotion)      *)
(* workflow PATCH /api/applications/:id at the centre.                     *)
(*                                                                         *)
(* Conventions                                                             *)
(*  - A JSON body or a header set is a record whose DOMAIN holds exactly   *)
(*    the fields that were sent; a field that was not sent is `undefined`  *)
(*    in the handler.                                                      *)
(*  - A document id is an integer: n >= 1 is a well-formed ObjectId (the   *)
(*    n-th one generated for its collection), 0 is a string that does not  *)
(*    parse as an ObjectId (Mongoose rejects it with a CastError).         *)
(*  - A collection is the sequence of its documents in natural (insertion) *)
(*    order, which is the order findOne scans.                             *)
(*  - Win amounts are whole units.                                         *)
(***************************************************************************)
EXTENDS Integers, Sequences, FiniteSets, TLC

VARIABLES
    players,        \* the Player collection
    applications,   \* the Application collection
    nextPlayerId,   \* number of Player ObjectIds generated so far, plus one
    observed,       \* the routes whose responses are recorded (never changes)
    last,           \* the last request to an observed route and its response
    calls,          \* the review calls in flight, one per connection
    now,            \* the server's clock, in milliseconds
    issued,         \* the tokens login has issued
    env,            \* process.env: the configured admin credentials
    localStorage,   \* the browser's localStorage: the token the web client keeps
    inflight,       \* the requests the web client has sent and not seen answered
    console,        \* the admin page: its tab and the ApplicationList it mounts
    page            \* the leaderboard page: its state and the players it shows

serverVars == <<players, applications, nextPlayerId, observed, last,
                calls, now, issued, env>>

clientVars == <<localStorage, inflight, console, page>>

vars == <<serverVars, clientVars>>

---------------------------------------------------------------------------
(* Bounds *)

MaxDocs == 3          \* documents (applications and players) created in one behaviour

Nicknames == {"AceA"}               \* nicknames the submissions carry
PlayerNames == {"AceA", "BobB"}     \* names the admin gives to players
Amounts == {1000000, 2000000}       \* win amounts the requests carry

\* A request that creates a document is taken while fewer than MaxDocs exist.
created(apps, npid) == Len(apps) + (npid - 1)

---------------------------------------------------------------------------
(* Values *)

Has(obj, f) == f \in DOMAIN obj

NoFields == [f \in {} |-> 0]

\* String.prototype.trim on the strings the requests carry.
Trim(s) == IF s = " " THEN "" ELSE s

Max(a, b) == IF a >= b THEN a ELSE b

\* String.prototype.replace(pat, '') on a string given as the sequence of
\* its chunks: the first occurrence of pat is removed.
RECURSIVE replace(_, _)
replace(s, pat) ==
    IF s = <<>> THEN <<>>
    ELSE IF Head(s) = pat THEN Tail(s)
    ELSE <<Head(s)>> \o replace(Tail(s), pat)

\* The web client with no page open, nothing stored and nothing sent.
NoPage == [ open |-> FALSE ]

NoClient ==
    /\ localStorage = NoFields
    /\ inflight = <<>>
    /\ console = NoPage
    /\ page = NoPage

---------------------------------------------------------------------------
(* Access-control gate *)

\* expiresIn: '24h', in seconds.
expiresIn == 86400

\* process.env.JWT_SECRET || 'default_secret'
jwtSecret(e) == IF Has(e, "JWT_SECRET") THEN e.JWT_SECRET ELSE "default_secret"

\* jwt.sign(payload, key, { expiresIn: '24h' }) at clock time ms: the token is
\* the payload with iat and exp in whole seconds, and the key that signed it.
jwtSign(payload, key, ms) ==
    [ f \in DOMAIN payload \cup {"iat", "exp", "key"} |->
        CASE f = "iat" -> ms \div 1000
          [] f = "exp" -> (ms \div 1000) + expiresIn
          [] f = "key" -> key
          [] OTHER -> payload[f] ]

\* Variant: the expiry is not checked.
jwtVerify_NoExpiry(token, key, ms) == token.key = key

\* jwt.verify(token, key) at clock time ms: the signature is made with key and
\* the clock, in whole seconds, is before exp.
jwtVerify(token, key, ms) == token.key = key /\ (ms \div 1000) < token.exp

\* The payload jwt.verify returns.
decoded(token) == [ f \in DOMAIN token \ {"key"} |-> token[f] ]

\* The token a login of the admin at clock time 0 was answered with.
AdminToken == jwtSign([username |-> "admin"], "default_secret", 0)

\* A token signed with another key.
ForgedToken == jwtSign([username |-> "admin"], "guessed_secret", 0)

verify(token) == Len(token) = 1 /\ jwtVerify(token[1], jwtSecret(env), now)

\* Variant: any Authorization header passes.
auth_AnyHeader(headers) == Has(headers, "Authorization")

\* TRUE when the gate calls next(), FALSE when it answers 401.
auth(headers) ==
    IF ~Has(headers, "Authorization") THEN FALSE
    ELSE LET token == replace(headers.Authorization, "Bearer ")
         IN  IF token = <<>> THEN FALSE ELSE verify(token)

AdminHeaders == [Authorization |-> <<"Bearer ", AdminToken>>]

\* process.env with the admin credentials configured.
AdminEnv == [ADMIN_USERNAME |-> "admin", ADMIN_PASSWORD |-> "s3cret"]

HeaderSets ==
    { NoFields,
      AdminHeaders,
      [Authorization |-> <<"Bearer ", ForgedToken>>] }

\* The requests of a protected route: every header set, and behind the admin's
\* header every input of the route; the gate reads nothing but the header, so
\* one input stands for all behind the other headers.
Requests(inputs, anyInput) ==
    { [headers |-> AdminHeaders, input |-> x] : x \in inputs } \cup
    { [headers |-> h, input |-> anyInput] : h \in HeaderSets \ {AdminHeaders} }

---------------------------------------------------------------------------
(* Player model *)

defaultAvatar(name) == "https://api.dicebear.com/6.x/personas/svg?seed=" \o name

\* new Player(fields): the schema defaults fill avatar, and createdAt with the
\* clock time (Date.now), when they are not given.
newPlayer(id, fields) ==
    [ _id      |-> id,
      createdAt |-> IF Has(fields, "createdAt") THEN fields.createdAt ELSE now,
      name     |-> IF Has(fields, "name") THEN fields.name ELSE "",
      hasWin   |-> Has(fields, "totalWin"),
      totalWin |-> IF Has(fields, "totalWin") THEN fields.totalWin ELSE 0,
      avatar   |-> IF Has(fields, "avatar") THEN fields.avatar
                   ELSE defaultAvatar(IF Has(fields, "name") THEN fields.name
                                      ELSE "undefined") ]

\* Schema validation run by save(): name and totalWin are required.
validPlayer(doc) == doc.name # "" /\ doc.hasWin

storedPlayer(doc) ==
    [ _id |-> doc._id, name |-> doc.name, totalWin |-> doc.totalWin,
      avatar |-> doc.avatar, createdAt |-> doc.createdAt ]

\* Player.findOne({ name }): index of the first match in natural order, 0 if none.
findOne(ps, name) ==
    LET hits == { i \in 1..Len(ps) : ps[i].name = name }
    IN  IF hits = {} THEN 0
        ELSE CHOOSE i \in hits : \A j \in hits : i <= j

\* Index of the document with this _id, 0 if none.
findById(docs, id) ==
    LET hits == { i \in 1..Len(docs) : docs[i]._id = id }
    IN  IF hits = {} THEN 0 ELSE CHOOSE i \in hits : TRUE

\* Variant: every id string is taken for an ObjectId.
isObjectId_Any(id) == TRUE

isObjectId(id) == id >= 1

Remove(s, i) == [ k \in 1..(Len(s) - 1) |-> IF k < i THEN s[k] ELSE s[k + 1] ]

---------------------------------------------------------------------------
(* Review workflow: PATCH /api/applications/:id *)

ReviewStatuses == {"pending", "approved", "rejected"}

\* Variant: any status that was sent passes.
validStatus_AnySent(body) == Has(body, "status")

validStatus(body) == Has(body, "status") /\ body.status \in ReviewStatuses

\* Variant: the status is written only over a pending application.
updateStatus_OnlyFromPending(apps, i, status) ==
    IF apps[i].status = "pending" THEN [apps EXCEPT ![i].status = status] ELSE apps

\* Variant: the status is written on every application with the nickname of
\* the one addressed.
updateStatus_SameNickname(apps, i, status) ==
    [ k \in 1..Len(apps) |->
        IF apps[k].nickname = apps[i].nickname
        THEN [apps[k] EXCEPT !.status = status] ELSE apps[k] ]

\* Application.findByIdAndUpdate(id, { status }, { new: true })
updateStatus(apps, i, status) == [apps EXCEPT ![i].status = status]

\* Variant: the existing player is never written.
raiseTotal_Never(ps, i, application) ==
    [ players |-> ps, merge |-> "kept", playerWrites |-> 0 ]

\* Variant: the comparison is flipped.
raiseTotal_Flipped(ps, i, application) ==
    IF application.totalWin < ps[i].totalWin
    THEN [ players |-> [ps EXCEPT ![i].totalWin = application.totalWin],
           merge |-> "raised", playerWrites |-> 1 ]
    ELSE [ players |-> ps, merge |-> "kept", playerWrites |-> 0 ]

\* Variant: the claim always overwrites the total.
raiseTotal_Overwrite(ps, i, application) ==
    [ players |-> [ps EXCEPT ![i].totalWin = application.totalWin],
      merge |-> "raised", playerWrites |-> 1 ]

\* Variant: the claim is added to the total.
raiseTotal_Accumulate(ps, i, application) ==
    [ players |-> [ps EXCEPT ![i].totalWin = @ + application.totalWin],
      merge |-> "raised", playerWrites |-> 1 ]

\* The existingPlayer branch: raise the total only if the claim is higher.
raiseTotal(ps, i, application) ==
    IF application.totalWin > ps[i].totalWin
    THEN [ players |-> [ps EXCEPT ![i].totalWin = application.totalWin],
           merge |-> "raised", playerWrites |-> 1 ]
    ELSE [ players |-> ps, merge |-> "kept", playerWrites |-> 0 ]

\* Variant: the avatar is seeded with the applicant's legal name.
createFromApplication_SeedLegalName(ps, npid, application) ==
    LET doc == newPlayer(npid,
                   [ name |-> application.nickname,
                     totalWin |-> application.totalWin,
                     avatar |-> "https://api.dicebear.com/6.x/personas/svg?seed="
                                   \o application.name ])
    IN  [ players |-> Append(ps, storedPlayer(doc)), merge |-> "created",
          playerWrites |-> 1 ]

\* The create branch.
createFromApplication(ps, npid, application) ==
    LET doc == newPlayer(npid,
                   [ name |-> application.nickname,
                     totalWin |-> application.totalWin,
                     avatar |-> "https://api.dicebear.com/6.x/personas/svg?seed="
                                   \o application.nickname ])
    IN  IF validPlayer(doc)
        THEN [ players |-> Append(ps, storedPlayer(doc)), merge |-> "created",
               playerWrites |-> 1 ]
        ELSE [ players |-> ps, merge |-> "failed", playerWrites |-> 0 ]

\* Variant: no lookup, a player is created on every approval.
mergePlayer_AlwaysCreate(ps, npid, application) ==
    createFromApplication(ps, npid, application)

\* The merge step run when status === 'approved'.
mergePlayer(ps, npid, application) ==
    LET i == findOne(ps, application.nickname)
    IN  IF i # 0 THEN raiseTotal(ps, i, application)
        ELSE createFromApplication(ps, npid, application)

\* Variant: the merge runs for every terminal status.
shouldMerge_Terminal(status) == status # "pending"

\* if (status === 'approved')
shouldMerge(status) == status = "approved"

\* The whole handler, gate included: the stores after the call and the response.
\* from is the status the addressed application had before the call.
patchApplication(ps, apps, npid, headers, id, body) ==
    LET same == [ players |-> ps, applications |-> apps, code |-> 0,
                  from |-> "", merge |-> "none", appWrites |-> 0,
                  playerWrites |-> 0 ]
    IN  IF ~auth(headers) THEN [same EXCEPT !.code = 401]
        ELSE IF ~validStatus(body) THEN [same EXCEPT !.code = 400]
        \* findByIdAndUpdate throws a CastError, caught: 400
        ELSE IF ~isObjectId(id) THEN [same EXCEPT !.code = 400]
        ELSE LET i == findById(apps, id) IN
             IF i = 0 THEN [same EXCEPT !.code = 404]
             ELSE LET apps2 == updateStatus(apps, i, body.status) IN
                  IF shouldMerge(body.status)
                  THEN LET m == mergePlayer(ps, npid, apps2[i])
                       IN  [ players |-> m.players, applications |-> apps2,
                             code |-> IF m.merge = "failed" THEN 400 ELSE 200,
                             from |-> apps[i].status,
                             merge |-> m.merge, appWrites |-> 1,
                             playerWrites |-> m.playerWrites ]
                  ELSE [same EXCEPT !.applications = apps2, !.code = 200,
                                    !.from = apps[i].status, !.appWrites = 1]

ReviewBodies ==
    { NoFields } \cup
    { [status |-> s] : s \in ReviewStatuses \cup {"cancelled"} }

\* Ids a request may carry: malformed, every stored one, and the next unused one.
AppIds(apps) == 0..(Len(apps) + 1)

\* The record kept of a request: the route, the response code and, for a
\* review call that got past the gate, what the handler read from the request
\* (the id once the status passed validation, and the status sent).
NoResponse(op) ==
    [ op |-> op, code |-> 0, id |-> 0, status |-> "", from |-> "",
      merge |-> "none", again |-> FALSE,
      headers |-> NoFields, body |-> NoFields, user |-> NoFields,
      token |-> NoFields, list |-> <<>> ]

Response(op, code, id, status, from, merge) ==
    IF op \in observed
    THEN [ NoResponse(op) EXCEPT
             !.code = code, !.id = id, !.status = status,
             !.from = from, !.merge = merge,
             \* a successful repeat of the successful request handled just before
             !.again = /\ last.op = op /\ last.id = id /\ last.status = status
                       /\ last.code = 200 /\ code = 200 ]
    ELSE NoResponse("unobserved")

\* What is kept of a request and its response.  Where the gate is observed
\* ("gate" in observed) it is, for every route, the code and the headers sent;
\* elsewhere it is resp, the record of an observed route, with the body sent.
Sent(resp, op, code, headers, body) ==
    IF "gate" \in observed
    THEN [NoResponse(op) EXCEPT !.code = code, !.headers = headers]
    ELSE IF resp.op = "unobserved" THEN resp
    ELSE [resp EXCEPT !.body = body]

\* A route without the gate reads no header: the headers sent with its
\* requests vary only where they are recorded.
PublicHeaders == IF "gate" \in observed THEN HeaderSets ELSE { NoFields }

\* The requests of a route without the gate: every input without a token, and
\* one input with each of the other headers.
PublicRequests(inputs, anyInput) ==
    { [headers |-> NoFields, input |-> x] : x \in inputs } \cup
    { [headers |-> h, input |-> anyInput] : h \in PublicHeaders \ {NoFields} }

sentStatus(body) == IF Has(body, "status") THEN body.status ELSE "undefined"

ReviewInputs(apps) ==
    { [id |-> id, body |-> body] : id \in AppIds(apps), body \in ReviewBodies }

PatchApplication ==
    \E req \in Requests(ReviewInputs(applications), [id |-> 0, body |-> NoFields]) :
      \E r \in { patchApplication(players, applications, nextPlayerId,
                                   req.headers, req.input.id, req.input.body) } :
        LET id == req.input.id
            body == req.input.body
            grown == Len(r.players) > Len(players)
        IN  /\ grown => created(applications, nextPlayerId) < MaxDocs
            /\ players' = r.players
            /\ applications' = r.applications
            /\ nextPlayerId' = IF grown THEN nextPlayerId + 1 ELSE nextPlayerId
            /\ last' = Sent(IF r.code = 401
                            THEN Response("patchApplication", 401, 0, "", "", "none")
                            ELSE Response("patchApplication", r.code,
                                          IF validStatus(body) THEN id ELSE 0,
                                          sentStatus(body), r.from, r.merge),
                            "patchApplication", r.code, req.headers, NoFields)
            /\ UNCHANGED <<clientVars, observed, calls, now, issued, env>>

---------------------------------------------------------------------------
(* The review handler one storage operation at a time.  The handler awaits *)
(* three storage operations (findByIdAndUpdate, findOne, save); between    *)
(* two of them the server runs the steps of other requests.  What follows  *)
(* an await without another await in between is part of the same step.     *)

CallIds == {"c1", "c2"}

\* A connection on which no request has been made, and one that makes none.
IdleCall ==
    [ pc |-> "idle", code |-> 0, id |-> 0, status |-> "", application |-> NoFields,
      found |-> 0, write |-> NoFields, failed |-> FALSE, retry |-> FALSE,
      outage |-> FALSE ]

ClosedCall == [IdleCall EXCEPT !.pc = "off"]

\* Variant: a status is written only over a pending application (the
\* transition from a non-pending state is refused).
beginReview_WriteOnce(apps, headers, id, body) ==
    LET refused == [ applications |-> apps, pc |-> "done", code |-> 0,
                     id |-> 0, status |-> "", application |-> NoFields ]
    IN  IF ~auth(headers) THEN [refused EXCEPT !.code = 401]
        ELSE IF ~validStatus(body) THEN [refused EXCEPT !.code = 400]
        ELSE IF ~isObjectId(id) THEN [refused EXCEPT !.code = 400]
        ELSE LET i == findById(apps, id) IN
             IF i = 0 THEN [refused EXCEPT !.code = 404]
             ELSE IF apps[i].status # "pending" THEN [refused EXCEPT !.code = 400]
             ELSE LET apps2 == updateStatus(apps, i, body.status)
                  IN  [ applications |-> apps2,
                        pc |-> IF shouldMerge(body.status) THEN "find" ELSE "done",
                        code |-> IF shouldMerge(body.status) THEN 0 ELSE 200,
                        id |-> id, status |-> body.status,
                        application |-> apps2[i] ]

\* From the arrival of the request to the return of findByIdAndUpdate: the
\* gate, the status check and the status write.
beginReview(apps, headers, id, body) ==
    LET refused == [ applications |-> apps, pc |-> "done", code |-> 0,
                     id |-> 0, status |-> "", application |-> NoFields ]
    IN  IF ~auth(headers) THEN [refused EXCEPT !.code = 401]
        ELSE IF ~validStatus(body) THEN [refused EXCEPT !.code = 400]
        ELSE IF ~isObjectId(id) THEN [refused EXCEPT !.code = 400]
        ELSE LET i == findById(apps, id) IN
             IF i = 0 THEN [refused EXCEPT !.code = 404]
             ELSE LET apps2 == updateStatus(apps, i, body.status)
                  IN  [ applications |-> apps2,
                        pc |-> IF shouldMerge(body.status) THEN "find" ELSE "done",
                        code |-> IF shouldMerge(body.status) THEN 0 ELSE 200,
                        id |-> id, status |-> body.status,
                        application |-> apps2[i] ]

BeginReview(c) ==
    /\ calls[c].pc \in {"idle", "done"}
    /\ \E req \in Requests(ReviewInputs(applications), [id |-> 0, body |-> NoFields]) :
         \E r \in { beginReview(applications, req.headers,
                                req.input.id, req.input.body) } :
            /\ applications' = r.applications
            /\ calls' = [calls EXCEPT ![c] =
                  [ IdleCall EXCEPT
                      !.pc = r.pc, !.code = r.code, !.id = r.id,
                      !.status = r.status, !.application = r.application,
                      !.outage = calls[c].outage,
                      \* the approval that failed on this connection is sent again
                      !.retry = /\ calls[c].failed
                                /\ calls[c].id = req.input.id
                                /\ req.headers = AdminHeaders
                                /\ sentStatus(req.input.body) = "approved" ]]
    /\ UNCHANGED <<clientVars, players, nextPlayerId, observed, last, now, issued, env>>

\* From the return of findOne to the call of save: the comparison, and the
\* document save is to write.  The document read is compared in memory, so the
\* merge is computed on the one document read.
findPlayer(ps, npid, application) ==
    LET i == findOne(ps, application.nickname)
    IN  IF i # 0
        THEN LET m == raiseTotal(<<ps[i]>>, 1, application)
             IN  [ found |-> ps[i]._id,
                   write |-> IF m.merge = "raised"
                             THEN [ kind |-> "update", _id |-> ps[i]._id,
                                    totalWin |-> m.players[1].totalWin ]
                             ELSE NoFields ]
        ELSE LET m == createFromApplication(<<>>, npid, application)
             IN  [ found |-> 0,
                   write |-> IF m.merge = "created"
                             THEN [ kind |-> "insert", doc |-> m.players[1] ]
                             ELSE [ kind |-> "invalid" ] ]

FindPlayer(c) ==
    /\ calls[c].pc = "find"
    /\ \E r \in { findPlayer(players, nextPlayerId, calls[c].application) } :
         /\ calls' = [calls EXCEPT ![c] =
               IF r.write = NoFields
               THEN [@ EXCEPT !.pc = "done", !.code = 200, !.found = r.found]
               ELSE IF r.write.kind = "invalid"
               THEN [@ EXCEPT !.pc = "done", !.code = 400, !.found = r.found]
               ELSE [@ EXCEPT !.pc = "save", !.found = r.found, !.write = r.write]]
         \* new Player(...) generates the _id
         /\ nextPlayerId' = IF r.found = 0 THEN nextPlayerId + 1 ELSE nextPlayerId
    /\ UNCHANGED <<clientVars, players, applications, observed, last, now, issued, env>>

\* save(): an insert of the new document, or $set totalWin on the document
\* with the _id that was read (no step between the read and the save deletes
\* a player).
savePlayer(ps, write) ==
    IF write.kind = "insert" THEN Append(ps, write.doc)
    ELSE LET i == findById(ps, write._id)
         IN  IF i = 0 THEN ps ELSE [ps EXCEPT ![i].totalWin = write.totalWin]

SavePlayer(c) ==
    /\ calls[c].pc = "save"
    /\ players' = savePlayer(players, calls[c].write)
    /\ calls' = [calls EXCEPT ![c].pc = "done", ![c].code = 200,
                              ![c].write = NoFields]
    /\ UNCHANGED <<clientVars, applications, nextPlayerId, observed, last, now, issued, env>>

\* save() rejects (the storage is unavailable): the catch block answers 400.
\* A behaviour has at most one such outage.
SavePlayerFails(c) ==
    /\ calls[c].pc = "save"
    /\ \A d \in CallIds : ~calls[d].outage
    /\ calls' = [calls EXCEPT ![c].pc = "done", ![c].code = 400,
                              ![c].write = NoFields, ![c].failed = TRUE,
                              ![c].outage = TRUE]
    /\ UNCHANGED <<clientVars, players, applications, nextPlayerId, observed, last,
                   now, issued, env>>

---------------------------------------------------------------------------
(* Application submission: POST /api/applications *)

RequiredStrings == {"name", "email", "phoneNumber", "nickname", "accountName"}

\* !x for a string field and for a number field of the body.
falsyString(body, f) == ~Has(body, f) \/ body[f] = ""
falsyNumber(body, f) == ~Has(body, f) \/ body[f] = 0

\* new Application({...}): setters trim the strings, status defaults to pending.
newApplication(id, body) ==
    [ _id         |-> id,
      name        |-> Trim(body.name),
      email       |-> Trim(body.email),
      phoneNumber |-> Trim(body.phoneNumber),
      nickname    |-> Trim(body.nickname),
      accountName |-> Trim(body.accountName),
      totalWin    |-> body.totalWin,
      proofUrl    |-> IF falsyString(body, "proofUrl") THEN ""
                      ELSE Trim(body.proofUrl),
      status      |-> "pending" ]

\* applicationSchema validation run by save().
validApplication(doc) ==
    /\ \A f \in RequiredStrings : doc[f] # ""
    /\ doc.totalWin >= 0

\* Variant: a submission takes the place of the stored application of the same
\* nickname.
postApplication_Upsert(apps, body) ==
    IF \/ \E f \in RequiredStrings : falsyString(body, f)
       \/ falsyNumber(body, "totalWin")
    THEN [ applications |-> apps, code |-> 400 ]
    ELSE LET same == { i \in 1..Len(apps) : apps[i].nickname = Trim(body.nickname) }
             doc == newApplication(Len(apps) + 1, body)
         IN  IF ~validApplication(doc)
             THEN [ applications |-> apps, code |-> 400 ]
             ELSE IF same = {}
             THEN [ applications |-> Append(apps, doc), code |-> 201 ]
             ELSE LET i == CHOOSE i \in same : TRUE
                  IN  [ applications |->
                          [apps EXCEPT ![i] = [doc EXCEPT !._id = apps[i]._id]],
                        code |-> 200 ]

\* Variant: a missing totalWin is stored as 0.
postApplication_DefaultsTotalWin(apps, body) ==
    IF \E f \in RequiredStrings : falsyString(body, f)
    THEN [ applications |-> apps, code |-> 400 ]
    ELSE LET filled == [ f \in DOMAIN body \cup {"totalWin"} |->
                           IF Has(body, f) THEN body[f] ELSE 0 ]
             doc == newApplication(Len(apps) + 1, filled)
         IN  IF validApplication(doc)
             THEN [ applications |-> Append(apps, doc), code |-> 201 ]
             ELSE [ applications |-> apps, code |-> 400 ]

postApplication(apps, body) ==
    IF \/ \E f \in RequiredStrings : falsyString(body, f)
       \/ falsyNumber(body, "totalWin")
    THEN [ applications |-> apps, code |-> 400 ]
    ELSE LET doc == newApplication(Len(apps) + 1, body)
         IN  IF validApplication(doc)
             THEN [ applications |-> Append(apps, doc), code |-> 201 ]
             ELSE [ applications |-> apps, code |-> 400 ]

FullBody(n, w) ==
    [ name |-> "Alice", email |-> "a@x.com", phoneNumber |-> "555",
      nickname |-> n, accountName |-> "acc1", totalWin |-> w ]

Without(body, f) == [ g \in DOMAIN body \ {f} |-> body[g] ]

SubmitBodies ==
    LET full == { FullBody(n, w) : n \in Nicknames, w \in Amounts \cup {0} }
        one == FullBody(CHOOSE n \in Nicknames : TRUE, CHOOSE w \in Amounts : TRUE)
    IN  full
        \cup { Without(one, f) : f \in DOMAIN one }
        \cup { [one EXCEPT !.nickname = v] : v \in {"", " "} }
        \cup { [one EXCEPT !.totalWin = -1] }
        \cup { [ f \in DOMAIN one \cup {"status"} |->
                   IF f = "status" THEN "approved" ELSE one[f] ] }

SubmitApplication ==
    \E req \in PublicRequests(SubmitBodies, NoFields) :
      \E r \in { postApplication(applications, req.input) } :
            /\ r.code = 201 => created(applications, nextPlayerId) < MaxDocs
            /\ applications' = r.applications
            /\ last' = Sent(Response("postApplication", r.code, 0, "", "", "none"),
                            "postApplication", r.code, req.headers, req.input)
            /\ UNCHANGED <<clientVars, players, nextPlayerId, observed, calls, now, issued, env>>

---------------------------------------------------------------------------
(* Admin player routes *)

\* The amounts the admin sends: where the player routes are the ones observed,
\* a negative amount is among them.
AdminAmounts ==
    IF "patchPlayer" \in observed THEN Amounts \cup {-1} ELSE Amounts

PlayerBodies ==
    { NoFields, [name |-> "BobB"], [totalWin |-> 1000000],
      [name |-> "", totalWin |-> 1000000] } \cup
    { [name |-> n, totalWin |-> w] : n \in PlayerNames, w \in AdminAmounts }

\* POST /api/players
postPlayer(ps, npid, headers, body) ==
    IF ~auth(headers) THEN [ players |-> ps, code |-> 401 ]
    ELSE LET fields == [ f \in DOMAIN body \cap {"name", "totalWin"} |-> body[f] ]
             doc == newPlayer(npid, fields)
         IN  IF validPlayer(doc)
             THEN [ players |-> Append(ps, storedPlayer(doc)), code |-> 201 ]
             ELSE [ players |-> ps, code |-> 400 ]

CreatePlayer ==
    \E req \in Requests(PlayerBodies, NoFields) :
      \E r \in { postPlayer(players, nextPlayerId, req.headers, req.input) } :
        LET grown == Len(r.players) > Len(players)
        IN  /\ grown => created(applications, nextPlayerId) < MaxDocs
            /\ players' = r.players
            /\ nextPlayerId' = IF grown THEN nextPlayerId + 1 ELSE nextPlayerId
            /\ last' = Sent(Response("postPlayer", r.code, 0, "", "", "none"),
                            "postPlayer", r.code, req.headers, req.input)
            /\ UNCHANGED <<clientVars, applications, observed, calls, now, issued, env>>

PlayerIds == 0..(MaxDocs + 1)

\* PATCH /api/players/:id
patchPlayer(ps, headers, id, body) ==
    IF ~auth(headers) THEN [ players |-> ps, code |-> 401 ]
    ELSE IF ~isObjectId(id) THEN [ players |-> ps, code |-> 400 ]
    ELSE LET i == findById(ps, id) IN
         IF i = 0 THEN [ players |-> ps, code |-> 404 ]
         ELSE [ players |-> IF Has(body, "totalWin")
                            THEN [ps EXCEPT ![i].totalWin = body.totalWin]
                            ELSE ps,
                code |-> 200 ]

PatchBodies == { NoFields } \cup { [totalWin |-> w] : w \in AdminAmounts }

PatchInputs == { [id |-> id, body |-> body] : id \in PlayerIds, body \in PatchBodies }

PatchPlayer ==
    \E req \in Requests(PatchInputs, [id |-> 0, body |-> NoFields]) :
      \E r \in { patchPlayer(players, req.headers, req.input.id, req.input.body) } :
            /\ players' = r.players
            /\ last' = Sent(Response("patchPlayer", r.code, req.input.id,
                                     "", "", "none"),
                            "patchPlayer", r.code, req.headers, req.input.body)
            /\ UNCHANGED <<clientVars, applications, nextPlayerId, observed, calls, now, issued, env>>

\* Variant: every player of the addressed player's name is removed.
deletePlayer_SameName(ps, headers, id) ==
    IF ~auth(headers) THEN [ players |-> ps, code |-> 401 ]
    ELSE IF ~isObjectId(id) THEN [ players |-> ps, code |-> 400 ]
    ELSE LET i == findById(ps, id) IN
         IF i = 0 THEN [ players |-> ps, code |-> 404 ]
         ELSE [ players |-> SelectSeq(ps, LAMBDA p : p.name # ps[i].name),
                code |-> 204 ]

\* DELETE /api/players/:id
deletePlayer(ps, headers, id) ==
    IF ~auth(headers) THEN [ players |-> ps, code |-> 401 ]
    ELSE IF ~isObjectId(id) THEN [ players |-> ps, code |-> 400 ]
    ELSE LET i == findById(ps, id) IN
         IF i = 0 THEN [ players |-> ps, code |-> 404 ]
         ELSE [ players |-> Remove(ps, i), code |-> 204 ]

DeletePlayer ==
    \E req \in Requests(PlayerIds, 0) :
      \E r \in { deletePlayer(players, req.headers, req.input) } :
            /\ players' = r.players
            /\ last' = Sent(Response("deletePlayer", r.code, req.input,
                                     "", "", "none"),
                            "deletePlayer", r.code, req.headers, NoFields)
            /\ UNCHANGED <<clientVars, applications, nextPlayerId, observed, calls, now, issued, env>>

---------------------------------------------------------------------------
(* Read routes.  A read changes no collection.  What is modelled of the    *)
(* response is the status code and the list of documents returned (the    *)
(* search route: the status code alone).                                   *)

\* req.user, which the gate sets to the decoded payload before next().
principal(headers) == decoded(replace(headers.Authorization, "Bearer ")[1])

\* find().sort({ createdAt: -1 }): the latest submission first.
latestFirst(apps) == [ k \in 1..Len(apps) |-> apps[Len(apps) + 1 - k] ]

\* GET /api/applications, behind the gate.
listApplications(apps, headers) ==
    IF ~auth(headers) THEN [ code |-> 401, user |-> NoFields, list |-> <<>> ]
    ELSE [ code |-> 200, user |-> principal(headers), list |-> latestFirst(apps) ]

Min(a, b) == IF a <= b THEN a ELSE b

\* find().sort({ totalWin: -1 }) on the documents at the indexes S: the
\* results the storage may return.  The sort puts a greater totalWin first and
\* leaves the order of documents with equal totalWin open.
RECURSIVE sortDescending(_, _)
sortDescending(ps, S) ==
    IF S = {} THEN { <<>> }
    ELSE LET first == { i \in S : \A j \in S : ps[i].totalWin >= ps[j].totalWin }
         IN  UNION { { <<ps[i]>> \o rest : rest \in sortDescending(ps, S \ {i}) } :
                     i \in first }

\* Variant: the documents are returned in natural order.
sorted_Unsorted(ps) == { ps }

sorted(ps) == sortDescending(ps, 1..Len(ps))

\* cursor.limit(n): the first n results; a negative n stands for the limit -n,
\* and 0 for no limit.
limit(list, n) ==
    IF n = 0 THEN list
    ELSE SubSeq(list, 1, Min(IF n < 0 THEN -n ELSE n, Len(list)))

\* Number(x) for a query parameter: the number a decimal string writes, 0 for
\* the empty string, and NaN (no value) for undefined and for any other
\* string.  The result is the set of at most one number.
Number(query, f) ==
    IF ~Has(query, f) THEN {}
    ELSE CASE query[f] = ""   -> { 0 }
           [] query[f] = "0"  -> { 0 }
           [] query[f] = "2"  -> { 2 }
           [] query[f] = "-2" -> { -2 }
           [] query[f] = "11" -> { 11 }
           [] OTHER           -> {}

defaultLimit == 10

\* Variant: only a limit that is no number is replaced by the default.
topLimit_ZeroKept(query) ==
    LET n == Number(query, "limit")
    IN  IF n = {} THEN defaultLimit ELSE CHOOSE k \in n : TRUE

\* Number(req.query.limit) || 10: NaN and 0 are falsy.
topLimit(query) ==
    LET n == Number(query, "limit")
    IN  IF n = {} \/ n = {0} THEN defaultLimit ELSE CHOOSE k \in n : TRUE

\* GET /api/players: a find and a sort, no gate.  The set of the responses
\* the route may give.
getPlayers(ps) == { [ code |-> 200, list |-> l ] : l \in sorted(ps) }

\* Dates are milliseconds since 1 January 1970, a Thursday; the server's time
\* zone is UTC, and the calendar is that of 1970.
msPerDay == 24 * 60 * 60 * 1000

MonthDays == <<31, 28, 31, 30, 31, 30, 31, 31, 30, 31, 30, 31>>

\* Date.prototype.getDay: 0 is Sunday.
getDay(ms) == ((ms \div msPerDay) + 4) % 7

\* setHours(0, 0, 0, 0)
startOfDay(ms) == ms - (ms % msPerDay)

\* setDate(getDate() - getDay()) on the start of the day
startOfWeek(ms) == startOfDay(ms) - getDay(ms) * msPerDay

\* The day, counted from 1 January, on which the month of day d begins; m is
\* the month the count has reached.
RECURSIVE monthStart(_, _)
monthStart(d, m) ==
    IF m = Len(MonthDays) \/ d < MonthDays[m] THEN 0
    ELSE MonthDays[m] + monthStart(d - MonthDays[m], m + 1)

\* setDate(1) on the start of the day
startOfMonth(ms) == monthStart(ms \div msPerDay, 1) * msPerDay

\* find({ createdAt: { $gte: start } })
createdSince(ps, start) == SelectSeq(ps, LAMBDA p : p.createdAt >= start)

\* GET /api/players/weekly, /api/players/monthly: a find of the players created
\* since the start of the week (Sunday) or of the month, and a sort; no gate.
getWeekly(ps, ms) ==
    { [ code |-> 200, list |-> l ] : l \in sorted(createdSince(ps, startOfWeek(ms))) }

getMonthly(ps, ms) ==
    { [ code |-> 200, list |-> l ] : l \in sorted(createdSince(ps, startOfMonth(ms))) }

\* GET /api/players/top?limit=, no gate.
Limits ==
    IF "getTop" \in observed
    THEN { NoFields } \cup
         { [limit |-> v] : v \in {"2", "abc", "", "0", "-2", "11"} }
    ELSE { NoFields }

getTop(ps, query) ==
    { [ code |-> 200, list |-> limit(l, topLimit(query)) ] : l \in sorted(ps) }

\* GET /api/players/search?q=: the storage rejects a q that is no regular
\* expression, and the catch block answers 500.  No gate.
Queries == { [q |-> "Ace"], [q |-> "("] }

validRegex(q) == q # "("

searchPlayers(ps, query) ==
    IF validRegex(query.q) THEN [ code |-> 200 ] ELSE [ code |-> 500 ]

\* A read as an action: nothing changes but the record of the request.
Read(op, code, headers) ==
    /\ last' = Sent(Response(op, code, 0, "", "", "none"), op, code,
                    headers, NoFields)
    /\ UNCHANGED <<clientVars, players, applications, nextPlayerId, observed,
                   calls, now, issued, env>>

\* The headers a client may send: those of HeaderSets and, with each token
\* login has issued, the header that presents it.
Bearer(token) == [Authorization |-> <<"Bearer ", token>>]

GateHeaders == HeaderSets \cup { Bearer(i.token) : i \in issued }

ListApplications ==
    \E headers \in GateHeaders :
      \E r \in { listApplications(applications, headers) } :
        /\ last' = [ Sent(Response("listApplications", r.code, 0, "", "", "none"),
                          "listApplications", r.code, headers, NoFields)
                     EXCEPT !.user = IF "gate" \in observed THEN r.user ELSE @ ]
        /\ UNCHANGED <<clientVars, players, applications, nextPlayerId, observed,
                       calls, now, issued, env>>

\* A read of players as an action: where the route is observed, the query
\* sent and the list returned are recorded.
\* The answers of a read route as far as they are recorded: where the list is
\* not observed only the status code is kept, and find() with sort() always
\* answers 200.
Answers(op, rs) ==
    IF op \in observed THEN rs ELSE { [ code |-> 200, list |-> <<>> ] }

ReadList(op, r, headers, query) ==
    /\ last' = [ Sent(Response(op, r.code, 0, "", "", "none"), op, r.code,
                       headers, query)
                 EXCEPT !.list = IF op \in observed THEN r.list ELSE @ ]
    /\ UNCHANGED <<clientVars, players, applications, nextPlayerId, observed,
                   calls, now, issued, env>>

GetPlayers ==
    \E r \in Answers("getPlayers", getPlayers(players)) :
      \E headers \in PublicHeaders :
        ReadList("getPlayers", r, headers, NoFields)

GetWeekly ==
    \E r \in Answers("getWeekly", getWeekly(players, now)) :
      \E headers \in PublicHeaders :
        ReadList("getWeekly", r, headers, NoFields)

GetMonthly ==
    \E r \in Answers("getMonthly", getMonthly(players, now)) :
      \E headers \in PublicHeaders :
        ReadList("getMonthly", r, headers, NoFields)

GetTop ==
    \E query \in Limits :
      \E r \in Answers("getTop", getTop(players, query)) :
        \E headers \in PublicHeaders :
          ReadList("getTop", r, headers, query)

SearchPlayers ==
    \E headers \in PublicHeaders, query \in Queries :
        Read("searchPlayers", searchPlayers(players, query).code, headers)

---------------------------------------------------------------------------
(* Login: POST /api/auth/login, and the clock *)

\* a === b for a field of the body and a variable of the environment, either
\* of which may be undefined.
strictEq(body, f, e, g) ==
    /\ Has(body, f) <=> Has(e, g)
    /\ Has(body, f) => body[f] = e[g]

\* Variant: the password is not compared.
login_UsernameOnly(e, body, ms) ==
    IF strictEq(body, "username", e, "ADMIN_USERNAME")
    THEN [ code |-> 200,
           token |-> jwtSign([ f \in DOMAIN body \cap {"username"} |-> body[f] ],
                             jwtSecret(e), ms) ]
    ELSE [ code |-> 401, token |-> NoFields ]

login(e, body, ms) ==
    IF /\ strictEq(body, "username", e, "ADMIN_USERNAME")
       /\ strictEq(body, "password", e, "ADMIN_PASSWORD")
    THEN [ code |-> 200,
           token |-> jwtSign([ f \in DOMAIN body \cap {"username"} |-> body[f] ],
                             jwtSecret(e), ms) ]
    ELSE [ code |-> 401, token |-> NoFields ]

LoginBodies ==
    { NoFields, [username |-> "admin"], [password |-> "s3cret"] } \cup
    { [username |-> u, password |-> w] :
        u \in {"admin", "eve"}, w \in {"s3cret", "guess"} }

\* issued keeps each token with the clock time at which login issued it.
Login ==
    \E body \in LoginBodies :
      \E r \in { login(env, body, now) } :
        /\ issued' = IF r.code = 200
                     THEN issued \cup { [token |-> r.token, at |-> now] }
                     ELSE issued
        /\ last' = [ NoResponse("login") EXCEPT
                       !.code = r.code, !.body = body, !.token = r.token ]
        /\ UNCHANGED <<clientVars, players, applications, nextPlayerId, observed,
                       calls, now, env>>

\* The clock times, in milliseconds, at which requests are made: around the
\* start and around one day later.
Instants == { 0, 1500, 86399999, 86400000, 86401200, 86401500, 86402000 }

AdvanceClock ==
    /\ \E t \in Instants : t > now /\ now' = t
    /\ last' = NoResponse("advanceClock")
    /\ UNCHANGED <<clientVars, players, applications, nextPlayerId, observed,
                   calls, issued, env>>

---------------------------------------------------------------------------
(* Test route: POST /api/test/create-sample-players *)

samplePlayers ==
    << [ name |-> "Champion123", totalWin |-> 50000000 ],
       [ name |-> "LuckyWinner", totalWin |-> 35000000 ],
       [ name |-> "GoldHunter", totalWin |-> 25000000 ],
       [ name |-> "FortuneMaster", totalWin |-> 20000000 ],
       [ name |-> "LuckyDragon", totalWin |-> 15000000 ] >>

\* Player.deleteMany({}), then one save per sample; no gate in front of it.
createSamplePlayers(npid) ==
    [ k \in 1..Len(samplePlayers) |->
        storedPlayer(newPlayer(npid + k - 1,
            [ name |-> samplePlayers[k].name,
              totalWin |-> samplePlayers[k].totalWin,
              avatar |-> "https://api.dicebear.com/6.x/personas/svg?seed="
                            \o samplePlayers[k].name ])) ]

CreateSamplePlayers ==
    /\ created(applications, nextPlayerId) < MaxDocs
    /\ players' = createSamplePlayers(nextPlayerId)
    /\ nextPlayerId' = nextPlayerId + Len(samplePlayers)
    /\ \E headers \in PublicHeaders :
         last' = Sent(Response("createSamplePlayers", 201, 0, "", "", "none"),
                      "createSamplePlayers", 201, headers, NoFields)
    /\ UNCHANGED <<clientVars, applications, observed, calls, now, issued, env>>

---------------------------------------------------------------------------
(* Web client: the admin page and its ApplicationList.  The admin page     *)
(* mounts ApplicationList while its tab is 'applications'.  The list shows *)
(* the data of the ['applications'] query, which the query cache keeps     *)
(* while the component is unmounted; the state of updateStatusMutation     *)
(* belongs to the mounted component.                                       *)

MaxInflight == 2      \* requests sent and not yet answered

\* api.interceptors.request: the Authorization header is added when a token
\* is stored (a stored token is a signed token, never the empty string).
requestInterceptor(storage) ==
    IF Has(storage, "token") THEN Bearer(storage.token) ELSE NoFields

\* The admin page as it opens: the applications tab, no data yet, the first
\* fetch of the list under way.
OpenConsole ==
    [ open |-> TRUE, activeTab |-> "applications", applications |-> NoFields,
      isPending |-> FALSE, fetching |-> TRUE ]

\* The rows of the list that show the Approve and Reject buttons, enabled.
reviewable(c) ==
    IF c.activeTab = "applications" /\ Has(c.applications, "data") /\ ~c.isPending
    THEN { k \in 1..Len(c.applications.data) :
             c.applications.data[k].status = "pending" }
    ELSE {}

\* handleStatusUpdate(id, status): updateStatusMutation.mutate sends the
\* request and the mutation is pending.
HandleStatusUpdate ==
    /\ console.open
    /\ Len(inflight) < MaxInflight
    /\ \E k \in reviewable(console), status \in {"approved", "rejected"} :
         inflight' = Append(inflight,
             [ op |-> "patchApplication",
               headers |-> requestInterceptor(localStorage),
               id |-> console.applications.data[k]._id,
               body |-> [status |-> status],
               mounted |-> TRUE ])
    /\ console' = [console EXCEPT !.isPending = TRUE]
    /\ last' = NoResponse("handleStatusUpdate")
    /\ UNCHANGED <<players, applications, nextPlayerId, observed, calls, now,
                   issued, env, localStorage, page>>

\* setActiveTab: leaving the applications tab unmounts ApplicationList, and
\* the requests it sent go on without it; coming back mounts a new one, whose
\* mutation is idle and whose query shows the cached data and fetches again.
SetActiveTab ==
    /\ console.open
    /\ \E tab \in {"applications", "players"} \ {console.activeTab} :
         IF tab = "players"
         THEN /\ console' = [console EXCEPT !.activeTab = tab,
                                            !.isPending = FALSE,
                                            !.fetching = FALSE]
              /\ inflight' = [ k \in 1..Len(inflight) |->
                                 [inflight[k] EXCEPT !.mounted = FALSE] ]
         ELSE /\ console' = [console EXCEPT !.activeTab = tab,
                                            !.isPending = FALSE,
                                            !.fetching = TRUE]
              /\ inflight' = inflight
    /\ last' = NoResponse("setActiveTab")
    /\ UNCHANGED <<players, applications, nextPlayerId, observed, calls, now,
                   issued, env, localStorage, page>>

\* The fetch of the ['applications'] query is answered and the list shows
\* the data.
FetchApplications ==
    /\ console.open
    /\ console.fetching
    /\ \E r \in { listApplications(applications, requestInterceptor(localStorage)) } :
         /\ console' = [console EXCEPT
                          !.fetching = FALSE,
                          !.applications = IF r.code = 200
                                           THEN [data |-> r.list] ELSE @ ]
         /\ last' = Sent(Response("listApplications", r.code, 0, "", "", "none"),
                         "listApplications", r.code,
                         requestInterceptor(localStorage), NoFields)
    /\ UNCHANGED <<players, applications, nextPlayerId, observed, calls, now,
                   issued, env, localStorage, inflight, page>>

\* A review request is handled by the server and its response reaches the
\* client: the mutation of the component that sent it settles if that
\* component is still mounted, and onSuccess invalidates the list, which is
\* fetched again while it is shown.
AnswerReview ==
    \E k \in 1..Len(inflight) :
      \E r \in { patchApplication(players, applications, nextPlayerId,
                                   inflight[k].headers, inflight[k].id,
                                   inflight[k].body) } :
        LET grown == Len(r.players) > Len(players)
        IN  /\ inflight[k].op = "patchApplication"
            /\ grown => created(applications, nextPlayerId) < MaxDocs
            /\ players' = r.players
            /\ applications' = r.applications
            /\ nextPlayerId' = IF grown THEN nextPlayerId + 1 ELSE nextPlayerId
            /\ inflight' = Remove(inflight, k)
            /\ console' = [console EXCEPT
                  !.isPending = IF inflight[k].mounted THEN FALSE ELSE @,
                  !.fetching = IF r.code = 200 /\ console.activeTab = "applications"
                               THEN TRUE ELSE @ ]
            /\ last' = Sent(Response("patchApplication", r.code, inflight[k].id,
                                     inflight[k].body.status, r.from, r.merge),
                            "patchApplication", r.code, inflight[k].headers,
                            NoFields)
            /\ UNCHANGED <<observed, calls, now, issued, env, localStorage, page>>

---------------------------------------------------------------------------
(* Web client: the axios instance of services/api.ts, the token it keeps   *)
(* in localStorage, and the pages that store and remove the token.         *)

\* Variant: a rejected response leaves the stored token alone.
responseRejected_KeepsToken(storage, status) == storage

\* api.interceptors.response, on a response outside 2xx: 401 removes the
\* stored token.
responseRejected(storage, status) ==
    IF status = 401 THEN Without(storage, "token") ELSE storage

\* loginMutation.onSuccess: localStorage.setItem('token', data.token)
loginSucceeded(storage, token) ==
    [ f \in DOMAIN storage \cup {"token"} |->
        IF f = "token" THEN token ELSE storage[f] ]

\* What the login form sends: handleSubmit returns early unless both fields
\* are filled in.
Credentials ==
    { b \in LoginBodies :
        /\ Has(b, "username") /\ b.username # ""
        /\ Has(b, "password") /\ b.password # ""
        /\ b.username = "admin" }

\* A request as the axios instance sends it.
ApiRequest(op, body) ==
    [ op |-> op, headers |-> requestInterceptor(localStorage), id |-> 0,
      body |-> body, mounted |-> TRUE ]

\* LoginPage handleSubmit: loginMutation.mutate posts the credentials.
SubmitLogin ==
    /\ Len(inflight) < MaxInflight
    /\ \E body \in Credentials :
         inflight' = Append(inflight, ApiRequest("login", body))
    /\ last' = NoResponse("submitLogin")
    /\ UNCHANGED <<players, applications, nextPlayerId, observed, calls, now,
                   issued, env, localStorage, console, page>>

\* A page asks for the applications (behind the gate) or for the players.
SendRequest ==
    /\ Len(inflight) < MaxInflight
    /\ \E op \in {"listApplications", "getPlayers"} :
         inflight' = Append(inflight, ApiRequest(op, NoFields))
    /\ last' = NoResponse("sendRequest")
    /\ UNCHANGED <<players, applications, nextPlayerId, observed, calls, now,
                   issued, env, localStorage, console, page>>

\* The response of the server to a request of the client.
serve(req) ==
    CASE req.op = "login" -> login(env, req.body, now)
      [] req.op = "listApplications" ->
            [ code |-> listApplications(applications, req.headers).code,
              token |-> NoFields ]
      [] OTHER -> [ code |-> 200, token |-> NoFields ]

\* The server answers a request and the response reaches the client: a
\* response outside 2xx passes the response interceptor, and the response to
\* a successful login is handed to loginMutation.onSuccess.
AnswerRequest ==
    \E k \in 1..Len(inflight) :
      \E r \in { serve(inflight[k]) } :
        /\ inflight[k].op \in {"login", "listApplications", "getPlayers"}
        /\ inflight' = Remove(inflight, k)
        /\ issued' = IF inflight[k].op = "login" /\ r.code = 200
                     THEN issued \cup { [token |-> r.token, at |-> now] }
                     ELSE issued
        /\ localStorage' =
             IF r.code \notin 200..299
             THEN responseRejected(localStorage, r.code)
             ELSE IF inflight[k].op = "login"
             THEN loginSucceeded(localStorage, r.token)
             ELSE localStorage
        /\ last' = [ NoResponse(inflight[k].op) EXCEPT
                       !.code = r.code, !.headers = inflight[k].headers,
                       !.body = inflight[k].body, !.token = r.token ]
        /\ UNCHANGED <<players, applications, nextPlayerId, observed, calls,
                       now, env, console, page>>

\* AdminPage handleLogout: localStorage.removeItem('token')
HandleLogout ==
    /\ Has(localStorage, "token")
    /\ localStorage' = Without(localStorage, "token")
    /\ last' = NoResponse("handleLogout")
    /\ UNCHANGED <<players, applications, nextPlayerId, observed, calls, now,
                   issued, env, inflight, console, page>>

---------------------------------------------------------------------------
(* Web client: the leaderboard page.  A string the page searches or sorts  *)
(* by is read as the sequence of its characters.                           *)

ITEMS_PER_PAGE == 10

chars(s) ==
    CASE s = ""     -> <<>>
      [] s = "AceA" -> <<"A", "c", "e", "A">>
      [] s = "BobB" -> <<"B", "o", "b", "B">>
      [] s = "ace"  -> <<"a", "c", "e">>
      [] s = "Bob"  -> <<"B", "o", "b">>
      [] s = "zz"   -> <<"z", "z">>

\* String.prototype.toLowerCase
toLowerCase(cs) ==
    [ k \in 1..Len(cs) |->
        CASE cs[k] = "A" -> "a"
          [] cs[k] = "B" -> "b"
          [] OTHER -> cs[k] ]

\* String.prototype.includes
includes(cs, part) ==
    \E k \in 0..(Len(cs) - Len(part)) : SubSeq(cs, k + 1, k + Len(part)) = part

Letters == <<"a", "b", "c", "e", "o", "z">>

letterRank(c) == CHOOSE i \in 1..Len(Letters) : Letters[i] = c

\* String.prototype.localeCompare on names that do not differ by case alone:
\* negative, zero or positive as a sorts before, with or after b.
RECURSIVE compareLetters(_, _)
compareLetters(a, b) ==
    IF a = <<>> /\ b = <<>> THEN 0
    ELSE IF a = <<>> THEN -1
    ELSE IF b = <<>> THEN 1
    ELSE IF Head(a) = Head(b) THEN compareLetters(Tail(a), Tail(b))
    ELSE IF letterRank(Head(a)) < letterRank(Head(b)) THEN -1 ELSE 1

localeCompare(a, b) ==
    compareLetters(toLowerCase(chars(a)), toLowerCase(chars(b)))

\* The page as it opens.
OpenPage ==
    [ open |-> TRUE, search |-> "", sortBy |-> "totalWin", sortOrder |-> "desc",
      currentPage |-> 1, timeFilter |-> "all", queries |-> NoFields ]

TimeFilters == {"all", "weekly", "monthly"}

SearchTexts == {"", "ace", "Bob", "zz"}

\* const { data: players = [] } = useQuery({ queryKey: ['players', timeFilter] })
data(pg) ==
    IF Has(pg.queries, pg.timeFilter) THEN pg.queries[pg.timeFilter] ELSE <<>>

\* The comparator handed to Array.prototype.sort.
compare(pg, a, b) ==
    LET modifier == IF pg.sortOrder = "asc" THEN 1 ELSE -1
    IN  IF pg.sortBy = "totalWin" THEN (a.totalWin - b.totalWin) * modifier
        ELSE localeCompare(a.name, b.name) * modifier

\* Array.prototype.sort with the comparator: the sort is stable.
sort(pg, l) ==
    LET before(j, i) == \/ compare(pg, l[j], l[i]) < 0
                        \/ compare(pg, l[j], l[i]) = 0 /\ j < i
        place(i) == 1 + Cardinality({ j \in 1..Len(l) : before(j, i) })
    IN  [ k \in 1..Len(l) |-> l[CHOOSE i \in 1..Len(l) : place(i) = k] ]

filteredAndSortedPlayers(pg) ==
    LET searchLower == toLowerCase(chars(pg.search))
        result == IF pg.search # ""
                  THEN SelectSeq(data(pg),
                         LAMBDA p : includes(toLowerCase(chars(p.name)), searchLower))
                  ELSE data(pg)
    IN  sort(pg, result)

\* Math.ceil(filteredAndSortedPlayers.length / ITEMS_PER_PAGE)
totalPages(pg) ==
    (Len(filteredAndSortedPlayers(pg)) + ITEMS_PER_PAGE - 1) \div ITEMS_PER_PAGE

\* filteredAndSortedPlayers.slice((currentPage - 1) * ITEMS_PER_PAGE,
\*                                currentPage * ITEMS_PER_PAGE)
paginatedPlayers(pg) ==
    LET all == filteredAndSortedPlayers(pg)
    IN  SubSeq(all, (pg.currentPage - 1) * ITEMS_PER_PAGE + 1,
               Min(pg.currentPage * ITEMS_PER_PAGE, Len(all)))

\* The rank shown beside the k-th row of the page: globalIndex + 1, as a number
\* or, for 1 to 3, as a medal.
rankShown(pg, k) == (pg.currentPage - 1) * ITEMS_PER_PAGE + (k - 1) + 1

\* What happens on the page leaves the server and the rest of the client alone.
PageStep(op) ==
    /\ last' = NoResponse(op)
    /\ UNCHANGED <<players, applications, nextPlayerId, observed, calls, now,
                   issued, env, localStorage, inflight, console>>

\* The query of the selected time filter is fetched (when the page opens, when
\* the filter changes, and every 30 seconds) and the page shows its data.
RefetchPlayers ==
    /\ page.open
    /\ \E r \in CASE page.timeFilter = "weekly" -> getWeekly(players, now)
                  [] page.timeFilter = "monthly" -> getMonthly(players, now)
                  [] OTHER -> getPlayers(players) :
         page' = [page EXCEPT !.queries =
                    [ f \in DOMAIN page.queries \cup {page.timeFilter} |->
                        IF f = page.timeFilter THEN r.list ELSE page.queries[f] ]]
    /\ PageStep("refetchPlayers")

\* A click on a time period tab.
SetTimeFilter ==
    /\ page.open
    /\ \E filter \in TimeFilters :
         page' = [page EXCEPT !.timeFilter = filter, !.currentPage = 1]
    /\ PageStep("setTimeFilter")

\* handleSearchChange, once the debounce delay has passed.
SetSearch ==
    /\ page.open
    /\ \E value \in SearchTexts \ {page.search} :
         page' = [page EXCEPT !.search = value]
    /\ PageStep("setSearch")

ToggleSort ==
    /\ page.open
    /\ \E field \in {"totalWin", "name"} :
         page' = IF page.sortBy = field
                 THEN [page EXCEPT !.sortOrder = IF @ = "asc" THEN "desc" ELSE "asc"]
                 ELSE [page EXCEPT !.sortBy = field, !.sortOrder = "desc"]
    /\ PageStep("toggleSort")

\* The pagination nav is rendered when totalPages > 1; the previous button is
\* disabled on page 1 and the next button on the last page.
PreviousPage ==
    /\ page.open
    /\ totalPages(page) > 1
    /\ page.currentPage # 1
    /\ page' = [page EXCEPT !.currentPage = Max(1, @ - 1)]
    /\ PageStep("previousPage")

GoToPage ==
    /\ page.open
    /\ totalPages(page) > 1
    /\ \E i \in 1..totalPages(page) : page' = [page EXCEPT !.currentPage = i]
    /\ PageStep("goToPage")

NextPage ==
    /\ page.open
    /\ totalPages(page) > 1
    /\ page.currentPage # totalPages(page)
    /\ page' = [page EXCEPT !.currentPage = Min(totalPages(page), @ + 1)]
    /\ PageStep("nextPage")

---------------------------------------------------------------------------

Init ==
    /\ NoClient
    /\ players = <<>>
    /\ applications = <<>>
    /\ nextPlayerId = 1
    /\ observed = {"patchApplication"}
    /\ last = NoResponse("none")
    /\ calls = [c \in CallIds |-> ClosedCall]
    /\ now = 0
    /\ issued = {}
    /\ env = AdminEnv

Next ==
    \/ SubmitApplication
    \/ PatchApplication
    \/ CreatePlayer
    \/ PatchPlayer
    \/ DeletePlayer

Spec == Init /\ [][Next]_vars

\* The routes that create players, the test route among them.
NextSeed ==
    \/ SubmitApplication
    \/ PatchApplication
    \/ CreatePlayer
    \/ CreateSamplePlayers

SpecSeed == Init /\ [][NextSeed]_vars

\* Every route, with the headers of every request recorded.
InitGate ==
    /\ NoClient
    /\ players = <<>>
    /\ applications = <<>>
    /\ nextPlayerId = 1
    /\ observed = {"gate"}
    /\ last = NoResponse("none")
    /\ calls = [c \in CallIds |-> ClosedCall]
    /\ now = 0
    /\ issued = {}
    /\ env = AdminEnv

NextGate ==
    \/ SubmitApplication
    \/ ListApplications
    \/ PatchApplication
    \/ CreatePlayer
    \/ PatchPlayer
    \/ DeletePlayer
    \/ GetPlayers
    \/ GetWeekly
    \/ GetMonthly
    \/ GetTop
    \/ SearchPlayers

SpecGate == InitGate /\ [][NextGate]_vars

\* The routes that create players, the test route among them, with the headers
\* of every request recorded.
SpecOpen == InitGate /\ [][NextSeed]_vars

\* Login, the clock and a route behind the gate; the admin credentials are
\* configured or not.
Envs == { AdminEnv, NoFields }

InitAuth ==
    /\ NoClient
    /\ players = <<>>
    /\ applications = <<>>
    /\ nextPlayerId = 1
    /\ observed = {"gate"}
    /\ last = NoResponse("none")
    /\ calls = [c \in CallIds |-> ClosedCall]
    /\ now = 0
    /\ issued = {}
    /\ env \in Envs

NextAuth ==
    \/ Login
    \/ AdvanceClock
    \/ ListApplications

SpecAuth == InitAuth /\ [][NextAuth]_vars

\* Submission, with the body of every submission recorded, and the routes
\* that fill the Player collection.
InitSubmit ==
    /\ NoClient
    /\ players = <<>>
    /\ applications = <<>>
    /\ nextPlayerId = 1
    /\ observed = {"postApplication"}
    /\ last = NoResponse("none")
    /\ calls = [c \in CallIds |-> ClosedCall]
    /\ now = 0
    /\ issued = {}
    /\ env = AdminEnv

NextSubmit ==
    \/ SubmitApplication
    \/ PatchApplication
    \/ CreatePlayer

SpecSubmit == InitSubmit /\ [][NextSubmit]_vars

\* The routes that write a collection, with the requests to the player routes
\* recorded: the id addressed and the body sent.
InitPlayers ==
    /\ NoClient
    /\ players = <<>>
    /\ applications = <<>>
    /\ nextPlayerId = 1
    /\ observed = {"postPlayer", "patchPlayer", "deletePlayer"}
    /\ last = NoResponse("none")
    /\ calls = [c \in CallIds |-> ClosedCall]
    /\ now = 0
    /\ issued = {}
    /\ env = AdminEnv

SpecStore == InitPlayers /\ [][Next]_vars

\* The same with the player routes alone.
NextPlayers ==
    \/ CreatePlayer
    \/ PatchPlayer
    \/ DeletePlayer

SpecPlayers == InitPlayers /\ [][NextPlayers]_vars

\* The leaderboard reads on a stored collection of up to MaxBoard players,
\* with the query sent and the list returned recorded.  The totals of the
\* players rise with the order of insertion, fall with it, or are equal in
\* pairs.
MaxBoard == 12

BoardTotals ==
    { [ i \in 1..MaxBoard |-> i * 1000000 ],
      [ i \in 1..MaxBoard |-> (MaxBoard + 1 - i) * 1000000 ],
      [ i \in 1..MaxBoard |-> ((i + 1) \div 2) * 1000000 ] }

\* The first n players, the i-th created at dates[i].
board(n, totals, dates) ==
    [ i \in 1..n |->
        storedPlayer(newPlayer(i, [ name |-> IF i % 2 = 1 THEN "AceA" ELSE "BobB",
                                    totalWin |-> totals[i],
                                    createdAt |-> dates[i] ])) ]

InitBoard ==
    /\ NoClient
    /\ players \in { board(n, t, [ i \in 1..MaxBoard |-> 0 ]) :
                       n \in 0..MaxBoard, t \in BoardTotals }
    /\ applications = <<>>
    /\ nextPlayerId = Len(players) + 1
    /\ observed = {"getPlayers", "getTop"}
    /\ last = NoResponse("none")
    /\ calls = [c \in CallIds |-> ClosedCall]
    /\ now = 0
    /\ issued = {}
    /\ env = AdminEnv

NextBoard ==
    \/ GetPlayers
    \/ GetTop

SpecBoard == InitBoard /\ [][NextBoard]_vars

\* Two pending applications with one nickname, and no player of that name or
\* one whose total an admin has set; two connections send review requests.
RaceNickname == CHOOSE n \in Nicknames : TRUE

InitRace ==
    /\ NoClient
    /\ \E w1 \in Amounts, w2 \in Amounts :
         applications = << newApplication(1, FullBody(RaceNickname, w1)),
                           newApplication(2, FullBody(RaceNickname, w2)) >>
    /\ players \in { <<>> } \cup
         { << storedPlayer(newPlayer(1, [name |-> RaceNickname, totalWin |-> t,
                                            createdAt |-> 0])) >> :
             t \in Amounts \cup {0} }
    /\ nextPlayerId = Len(players) + 1
    /\ observed = {}
    /\ last = NoResponse("none")
    /\ calls = [c \in CallIds |-> IdleCall]
    /\ now = 0
    /\ issued = {}
    /\ env = AdminEnv

NextRace ==
    \E c \in CallIds :
        \/ BeginReview(c)
        \/ FindPlayer(c)
        \/ SavePlayer(c)
        \/ SavePlayerFails(c)

SpecRace == InitRace /\ [][NextRace]_vars

\* The same with one connection: its requests are handled one after the other.
InitRetry ==
    /\ NoClient
    /\ \E w1 \in Amounts, w2 \in Amounts :
         applications = << newApplication(1, FullBody(RaceNickname, w1)),
                           newApplication(2, FullBody(RaceNickname, w2)) >>
    /\ players \in { <<>> } \cup
         { << storedPlayer(newPlayer(1, [name |-> RaceNickname, totalWin |-> t,
                                            createdAt |-> 0])) >> :
             t \in Amounts \cup {0} }
    /\ nextPlayerId = Len(players) + 1
    /\ observed = {}
    /\ last = NoResponse("none")
    /\ calls = [c \in CallIds |-> IF c = "c1" THEN IdleCall ELSE ClosedCall]
    /\ now = 0
    /\ issued = {}
    /\ env = AdminEnv

SpecRetry == InitRetry /\ [][NextRace]_vars

\* The admin is logged in and has the admin page open on two pending
\* applications; every review request comes from this console.
InitConsole ==
    /\ \E w1 \in Amounts, w2 \in Amounts :
         applications = << newApplication(1, FullBody(RaceNickname, w1)),
                           newApplication(2, FullBody(RaceNickname, w2)) >>
    /\ players = <<>>
    /\ nextPlayerId = 1
    /\ observed = {"patchApplication"}
    /\ last = NoResponse("none")
    /\ calls = [c \in CallIds |-> ClosedCall]
    /\ now = 0
    /\ issued = {}
    /\ env = AdminEnv
    /\ localStorage = [token |-> AdminToken]
    /\ inflight = <<>>
    /\ console = OpenConsole
    /\ page = NoPage

NextConsole ==
    \/ HandleStatusUpdate
    \/ SetActiveTab
    \/ FetchApplications
    \/ AnswerReview

SpecConsole == InitConsole /\ [][NextConsole]_vars

\* A browser without a token, the login page, the pages that send requests,
\* and the clock.
InitClient ==
    /\ players = <<>>
    /\ applications = <<>>
    /\ nextPlayerId = 1
    /\ observed = {"gate"}
    /\ last = NoResponse("none")
    /\ calls = [c \in CallIds |-> ClosedCall]
    /\ now = 0
    /\ issued = {}
    /\ env = AdminEnv
    /\ NoClient

NextClient ==
    \/ SubmitLogin
    \/ SendRequest
    \/ AnswerRequest
    \/ HandleLogout
    \/ AdvanceClock

SpecClient == InitClient /\ [][NextClient]_vars

\* The leaderboard page, opened at noon on Wednesday 21 January 1970 on a
\* collection of 10 to MaxBoard players, of which a third was created on 22
\* December, a third on 6 January and a third on 20 January; the totals fall
\* with the order of insertion, or rise with it with the first two equal.
PageNow == 20 * msPerDay + 12 * 60 * 60 * 1000

PageDates ==
    [ i \in 1..MaxBoard |->
        CASE i % 3 = 0 -> (0 - 10) * msPerDay
          [] i % 3 = 1 -> 5 * msPerDay
          [] OTHER     -> 19 * msPerDay ]

PageTotals ==
    { [ i \in 1..MaxBoard |-> (MaxBoard + 1 - i) * 1000000 ],
      [ i \in 1..MaxBoard |-> IF i = 1 THEN 2000000 ELSE i * 1000000 ] }

InitPage ==
    /\ players \in { board(n, t, PageDates) :
                       n \in ITEMS_PER_PAGE..MaxBoard, t \in PageTotals }
    /\ applications = <<>>
    /\ nextPlayerId = Len(players) + 1
    /\ observed = {}
    /\ last = NoResponse("none")
    /\ calls = [c \in CallIds |-> ClosedCall]
    /\ now = PageNow
    /\ issued = {}
    /\ env = AdminEnv
    /\ localStorage = NoFields
    /\ inflight = <<>>
    /\ console = NoPage
    /\ page = OpenPage

NextLeaderboard ==
    \/ RefetchPlayers
    \/ SetTimeFilter
    \/ SetSearch
    \/ ToggleSort
    \/ PreviousPage
    \/ GoToPage
    \/ NextPage

SpecPage == InitPage /\ [][NextLeaderboard]_vars

---------------------------------------------------------------------------
(* Properties of the review workflow.  A step of the review route is told  *)
(* from the others by last', which only that route sets (under Spec and    *)
(* SpecSeed the review route is the one observed).                         *)

Reviewed(resp, code, status) ==
    resp.op = "patchApplication" /\ resp.code = code /\ resp.status = status

\* The application a review response is about.
Addressed(resp) == applications[findById(applications, resp.id)]

\* The player the lookup by name returns.
PlayerNamed(ps, name) == ps[findOne(ps, name)]

\* C1: when a review call with status approved succeeds on a pending
\* application with nickname N and claimed amount W, a Player named N exists
\* afterwards whose totalWin is at least W.
C1_ApprovalPromotes ==
    [][ \A i \in 1..Len(applications) :
          ( /\ applications[i].status = "pending"
            /\ Reviewed(last', 200, "approved")
            /\ last'.id = applications[i]._id )
          => \E j \in 1..Len(players') :
                /\ players'[j].name = applications[i].nickname
                /\ players'[j].totalWin >= applications[i].totalWin ]_vars

C1_Witness ==
    /\ Reviewed(last, 200, "approved")
    /\ last.from = "pending"
    /\ last.merge = "raised"
    /\ PlayerNamed(players, Addressed(last).nickname).totalWin
          = Addressed(last).totalWin

\* C2: no review call, whatever its decision and outcome, removes a Player or
\* lowers the totalWin of a Player that existed before the call.
C2_NeverLowers ==
    [][ last'.op = "patchApplication"
        => \A i \in 1..Len(players) :
              \E j \in 1..Len(players') :
                 /\ players'[j]._id = players[i]._id
                 /\ players'[j].totalWin >= players[i].totalWin ]_vars

C2_Witness ==
    /\ Reviewed(last, 200, "approved")
    /\ last.merge = "kept"
    /\ PlayerNamed(players, Addressed(last).nickname).totalWin
          > Addressed(last).totalWin

\* C3: after a successful approval of an application with nickname N and
\* claimed amount W, the totalWin of the Player that the lookup by N returns is
\* W if no such Player existed before, and otherwise the maximum of its
\* totalWin before the call and W.  Over a sequence of approvals with no other
\* player write in between this is the maximum of the starting total and the
\* approved amounts.
C3_MaxOfClaims ==
    [][ \A i \in 1..Len(applications) :
          ( Reviewed(last', 200, "approved") /\ last'.id = applications[i]._id )
          => LET N == applications[i].nickname
                 W == applications[i].totalWin
             IN  /\ findOne(players', N) # 0
                 /\ PlayerNamed(players', N).totalWin
                      = IF findOne(players, N) = 0 THEN W
                        ELSE Max(PlayerNamed(players, N).totalWin, W) ]_vars

\* Two approved applications with one nickname, the smaller amount and then
\* the larger one, which has just raised the player's total.
C3_Witness ==
    /\ Reviewed(last, 200, "approved")
    /\ last.merge = "raised"
    /\ \E i \in 1..Len(applications) :
          /\ applications[i]._id # last.id
          /\ applications[i].status = "approved"
          /\ applications[i].nickname = Addressed(last).nickname
          /\ applications[i].totalWin < Addressed(last).totalWin
    /\ PlayerNamed(players, Addressed(last).nickname).totalWin
          = Addressed(last).totalWin

\* C4: a successful approval of an application whose nickname the lookup finds
\* on a Player with totalWin already at least the claimed amount leaves the
\* whole Player collection as it was.
C4_NoWriteWhenNotHigher ==
    [][ \A i \in 1..Len(applications) :
          ( /\ Reviewed(last', 200, "approved")
            /\ last'.id = applications[i]._id
            /\ findOne(players, applications[i].nickname) # 0
            /\ PlayerNamed(players, applications[i].nickname).totalWin
                  >= applications[i].totalWin )
          => players' = players ]_vars

C4_Witness ==
    /\ Reviewed(last, 200, "approved")
    /\ last.merge = "kept"
    /\ Len(players) >= 2
    /\ PlayerNamed(players, Addressed(last).nickname).totalWin
          >= Addressed(last).totalWin

\* C5: a successful approval of an application whose nickname no Player has
\* adds exactly one Player, with name = nickname, totalWin = the claimed amount
\* and avatar = the default avatar of the nickname, and changes no other
\* Player; and in every reachable state every Player's avatar is the default
\* avatar of its own name.
C5_CreatesDefaultPlayer ==
    /\ [](\A j \in 1..Len(players) :
             players[j].avatar = defaultAvatar(players[j].name))
    /\ [][ \A i \in 1..Len(applications) :
             ( /\ Reviewed(last', 200, "approved")
               /\ last'.id = applications[i]._id
               /\ findOne(players, applications[i].nickname) = 0 )
             => /\ Len(players') = Len(players) + 1
                /\ \A j \in 1..Len(players) : players'[j] = players[j]
                /\ players'[Len(players')].name = applications[i].nickname
                /\ players'[Len(players')].totalWin = applications[i].totalWin
                /\ players'[Len(players')].avatar
                      = defaultAvatar(applications[i].nickname)
                /\ \A j \in 1..Len(players) :
                      players[j]._id # players'[Len(players')]._id ]_vars

C5_Witness ==
    /\ Reviewed(last, 200, "approved")
    /\ last.merge = "created"
    /\ Len(players) >= 2
    /\ players[Len(players)].name = Addressed(last).nickname
    /\ players[Len(players)].totalWin = Addressed(last).totalWin

\* C6: a review call with status rejected leaves the Player collection as it
\* was, whatever the current status of the application.
C6_RejectLeavesPlayers ==
    [][ ( last'.op = "patchApplication" /\ last'.status = "rejected" )
        => players' = players ]_vars

\* An application that was approved, and promoted to a player, is rejected.
C6_Witness ==
    /\ Reviewed(last, 200, "rejected")
    /\ last.from = "approved"
    /\ findOne(players, Addressed(last).nickname) # 0

\* C7 (as claimed): the only status changes are pending -> approved and
\* pending -> rejected.
C7_WriteOnceForward ==
    [][ \A i \in 1..Len(applications) :
          applications'[i].status # applications[i].status
          => /\ applications[i].status = "pending"
             /\ applications'[i].status \in {"approved", "rejected"} ]_vars

\* C7 (amended): a status changes only in a successful review call on that
\* application, and a review call with status pending, approved or rejected on
\* an existing application is not refused: it sets the status to the one sent,
\* whatever the status was.
C7_StatusFollowsReview ==
    [][ /\ \A i \in 1..Len(applications) :
             applications'[i].status # applications[i].status
             => /\ last'.op = "patchApplication" /\ last'.code = 200
                /\ last'.id = applications[i]._id
                /\ last'.from = applications[i].status
                /\ applications'[i].status = last'.status
        /\ ( /\ last'.op = "patchApplication" /\ last'.code # 401
             /\ last'.status \in ReviewStatuses
             /\ findById(applications, last'.id) # 0 )
           => /\ last'.code = 200
              /\ applications'[findById(applications, last'.id)].status
                    = last'.status ]_vars

\* A terminal status is overwritten: an approved or rejected application is
\* back to pending.
C7_Witness ==
    /\ Reviewed(last, 200, "pending")
    /\ last.from \in {"approved", "rejected"}
    /\ Addressed(last).status = "pending"

\* C8 (as claimed): a review call that got past the gate with a status other
\* than approved or rejected is answered 400 and writes nothing (for status
\* pending, on an application that exists, so that the answer at stake is not
\* the 404 of a missing application).
C8_OnlyTerminalDecisions ==
    [][ ( /\ last'.op = "patchApplication" /\ last'.code # 401
          /\ last'.status \notin {"approved", "rejected"}
          /\ last'.status = "pending" => findById(applications, last'.id) # 0 )
        => /\ last'.code = 400
           /\ players' = players
           /\ applications' = applications ]_vars

\* C8 (amended): a review call that got past the gate with a status other than
\* pending, approved or rejected, or with none, is answered 400 and writes
\* nothing.
C8_InvalidStatusRefused ==
    [][ ( /\ last'.op = "patchApplication" /\ last'.code # 401
          /\ last'.status \notin ReviewStatuses )
        => /\ last'.code = 400
           /\ players' = players
           /\ applications' = applications ]_vars

C8_Witness ==
    /\ Reviewed(last, 400, "cancelled")
    /\ \E i \in 1..Len(applications) : applications[i].status = "pending"

\* C9 (as claimed): a review call with status approved or rejected and an id
\* that no Application has is answered 404 and writes nothing.
C9_MissingIsNotFound ==
    [][ ( /\ last'.op = "patchApplication" /\ last'.code # 401
          /\ last'.status \in {"approved", "rejected"}
          /\ findById(applications, last'.id) = 0 )
        => /\ last'.code = 404
           /\ players' = players
           /\ applications' = applications ]_vars

\* C9 (amended): a review call with a valid status and an id that no
\* Application has writes nothing; it is answered 404 when the id is a
\* well-formed ObjectId and 400 when it is not.
C9_MissingRefused ==
    [][ ( /\ last'.op = "patchApplication" /\ last'.code # 401
          /\ last'.status \in ReviewStatuses
          /\ findById(applications, last'.id) = 0 )
        => /\ last'.code = IF last'.id >= 1 THEN 404 ELSE 400
           /\ players' = players
           /\ applications' = applications ]_vars

C9_Witness ==
    /\ Reviewed(last, 404, "approved")
    /\ last.id >= 1
    /\ findById(applications, last.id) = 0
    /\ applications # <<>>

\* C10: a successful approval that repeats the successful approval of the same
\* application handled just before it changes neither collection.
C10_ApprovalIdempotent ==
    [][ ( Reviewed(last', 200, "approved") /\ last'.again )
        => /\ players' = players
           /\ applications' = applications ]_vars

C10_Witness ==
    /\ Reviewed(last, 200, "approved")
    /\ last.again
    /\ last.merge = "kept"
    /\ Cardinality({ j \in 1..Len(players) :
                       players[j].name = Addressed(last).nickname }) = 1

\* C14: a review call changes no Application other than the one addressed and
\* removes none; it changes or adds at most one Player, and only one whose name
\* is the nickname of the application addressed; and whatever the request, the
\* handler issues at most one Application write and at most one Player write.
C14_OneWriteEach ==
    /\ [][ last'.op = "patchApplication"
           => /\ Len(applications') = Len(applications)
              /\ \A i \in 1..Len(applications) :
                    applications'[i] # applications[i]
                    => applications[i]._id = last'.id
              /\ Len(players') \in {Len(players), Len(players) + 1}
              /\ LET touched == { j \in 1..Len(players) : players'[j] # players[j] }
                                \cup (Len(players) + 1)..Len(players')
                 IN  /\ Cardinality(touched) <= 1
                     /\ \A j \in touched :
                           /\ findById(applications, last'.id) # 0
                           /\ players'[j].name = Addressed(last').nickname ]_vars
    /\ [](\A in \in ReviewInputs(applications) :
            LET r == patchApplication(players, applications, nextPlayerId,
                                      AdminHeaders, in.id, in.body)
            IN  r.appWrites <= 1 /\ r.playerWrites <= 1)

\* An approval has raised one player while a player of another name is stored.
C14_Witness ==
    /\ Reviewed(last, 200, "approved")
    /\ last.merge = "raised"
    /\ \E j \in 1..Len(players) : players[j].name # Addressed(last).nickname

---------------------------------------------------------------------------
(* Properties of the review handler under interleaving (SpecRace) and of   *)
(* its retry after a storage failure (SpecRetry).                          *)

\* The call on connection c was an approval and has been answered 200.
Approved(c) ==
    /\ calls[c].pc = "done" /\ calls[c].code = 200
    /\ calls[c].status = "approved"

\* Two approvals of two different applications have both completed.
BothApproved ==
    /\ Approved("c1") /\ Approved("c2")
    /\ calls["c1"].id # calls["c2"].id

NamedPlayers(ps, name) == { j \in 1..Len(ps) : ps[j].name = name }

\* C11 (as claimed): under every interleaving of the steps of two approvals of
\* two different applications with nickname N, where Player N exists (both
\* calls found it), no step lowers a Player's totalWin, and once both calls
\* have completed the totalWin of Player N is at least the larger claim.
C11_RaceKeepsHigherTotal ==
    /\ [][ \A j \in 1..Len(players) :
             players'[j].totalWin >= players[j].totalWin ]_vars
    /\ []( ( /\ BothApproved
             /\ calls["c1"].found # 0 /\ calls["c2"].found # 0 )
           => PlayerNamed(players, RaceNickname).totalWin
                 >= Max(calls["c1"].application.totalWin,
                        calls["c2"].application.totalWin) )

\* C12 (as claimed): under every interleaving of two approvals of two
\* different applications with nickname N, starting with no Player named N (a
\* call found none), exactly one Player named N exists once both calls have
\* completed.
C12_RaceCreatesOnePlayer ==
    ( /\ BothApproved
      /\ calls["c1"].found = 0 \/ calls["c2"].found = 0 )
    => Cardinality(NamedPlayers(players, RaceNickname)) = 1

\* C13: when the Player write of an approval fails, the call is answered with
\* an error (400), the application is approved, the Player collection is as it
\* was and holds no Player of the nickname with totalWin >= the claim; the same
\* approval sent again is not refused, and when it completes it is answered 200
\* and a Player of the nickname has totalWin >= the claim.
C13_FailedApprovalRetried ==
    [][ \A c \in CallIds :
          LET N == calls'[c].application.nickname
              W == calls'[c].application.totalWin
          IN  /\ ( calls'[c].failed /\ ~calls[c].failed )
                 => /\ calls'[c].code = 400
                    /\ players' = players
                    /\ applications'[findById(applications', calls'[c].id)].status
                          = "approved"
                    /\ \A j \in NamedPlayers(players', N) :
                          players'[j].totalWin < W
              /\ ( calls'[c].retry /\ calls[c].pc \in {"idle", "done"} )
                 => calls'[c].pc = "find"
              /\ ( /\ calls[c].retry /\ calls[c].pc \in {"find", "save"}
                   /\ calls'[c].pc = "done" )
                 => /\ calls'[c].code = 200
                    /\ \E j \in NamedPlayers(players', N) :
                          players'[j].totalWin >= W ]_vars

\* The approval whose save failed was sent again and has created the player.
C13_Witness ==
    /\ Approved("c1")
    /\ calls["c1"].retry
    /\ calls["c1"].found = 0
    /\ calls["c1"].outage
    /\ \E j \in NamedPlayers(players, calls["c1"].application.nickname) :
          players[j].totalWin = calls["c1"].application.totalWin

---------------------------------------------------------------------------
(* Properties of the access-control gate (SpecGate, SpecOpen: the headers  *)
(* of every request are recorded).                                         *)

ProtectedRoutes ==
    {"postPlayer", "patchPlayer", "deletePlayer", "listApplications",
     "patchApplication"}

PublicReads == {"getPlayers", "getWeekly", "getMonthly", "getTop"}

\* C15: a request to player create, update or delete, to the application list
\* or to the status update that carries no token, or a token that does not
\* verify, is answered 401 and changes neither collection.  Without a token,
\* players, weekly, monthly and top are answered 200; search is answered 200,
\* or 500 when the storage rejects its q; a submission is answered 201 and
\* stored, or 400 and not stored: none of them is answered 401.
C15_GateGuardsAdminRoutes ==
    [][ /\ ( last'.op \in ProtectedRoutes /\ last'.headers # AdminHeaders )
           => /\ last'.code = 401
              /\ players' = players
              /\ applications' = applications
        /\ ( last'.op \in PublicReads /\ last'.headers = NoFields )
           => last'.code = 200
        /\ ( last'.op = "searchPlayers" /\ last'.headers = NoFields )
           => last'.code \in {200, 500}
        /\ ( last'.op = "postApplication" /\ last'.headers = NoFields )
           => /\ last'.code \in {201, 400}
              /\ last'.code = 201
                   <=> Len(applications') = Len(applications) + 1 ]_vars

\* A status update with a token that does not verify has been refused while a
\* pending application and a player are stored.
C15_Witness ==
    /\ last.op = "patchApplication"
    /\ last.code = 401
    /\ Has(last.headers, "Authorization")
    /\ players # <<>>
    /\ \E i \in 1..Len(applications) : applications[i].status = "pending"

\* C16 (as claimed): a step that changes the Player collection is the step of
\* a request that presented a valid bearer token.
C16_PlayersChangeBehindGate ==
    [][ players' # players => last'.headers = AdminHeaders ]_vars

---------------------------------------------------------------------------
(* Properties of login and of the token's lifetime (SpecAuth).             *)

\* The value of a field that may be undefined, as a set of at most one value.
Given(obj, f) == IF Has(obj, f) THEN { obj[f] } ELSE {}

\* C17: login answers 200 with a token, issued at the time of the request for
\* the username supplied, exactly when the username and the password supplied
\* are equal to the configured ADMIN_USERNAME and ADMIN_PASSWORD (an omitted
\* field is equal to a variable that is not configured); otherwise it answers
\* 401 with no token, and no token is issued.
C17_LoginIssuesOnMatch ==
    [][ last'.op = "login"
        => IF /\ Given(last'.body, "username") = Given(env, "ADMIN_USERNAME")
              /\ Given(last'.body, "password") = Given(env, "ADMIN_PASSWORD")
           THEN /\ last'.code = 200
                /\ [token |-> last'.token, at |-> now] \in issued'
                /\ Given(last'.token, "username") = Given(last'.body, "username")
                /\ last'.token.iat = now \div 1000
           ELSE /\ last'.code = 401
                /\ last'.token = NoFields
                /\ issued' = issued ]_vars

\* The admin has logged in a second time, later.
C17_Witness ==
    /\ last.op = "login" /\ last.code = 200
    /\ last.body = [username |-> "admin", password |-> "s3cret"]
    /\ now > 0
    /\ Cardinality(issued) >= 2

\* One day, in milliseconds.
DayMs == expiresIn * 1000

\* C18 (as claimed): a request that presents a token login issued at time t
\* passes the gate, with the token's payload as principal, when it is made
\* before t + 24h, and is answered 401 when it is made after t + 24h.
C18_TokenValidForADay ==
    [][ \A i \in issued :
          ( last'.op = "listApplications" /\ last'.headers = Bearer(i.token) )
          => /\ now < i.at + DayMs
                => /\ last'.code = 200
                   /\ Given(last'.user, "username") = Given(i.token, "username")
             /\ now > i.at + DayMs => last'.code = 401 ]_vars

\* C18 (amended): the lifetime is counted in whole seconds of the clock: the
\* request passes the gate, with the token's payload as principal, when the
\* second of the request is less than the second of the login plus 86400, and
\* is answered 401 otherwise.  So a request passes when made up to t + 24h - 1s
\* and is refused from t + 24h on; in the second before t + 24h it is refused
\* when the clock has reached the next whole second.
C18_TokenValidByWholeSeconds ==
    [][ \A i \in issued :
          ( last'.op = "listApplications" /\ last'.headers = Bearer(i.token) )
          => /\ ( IF (now \div 1000) < (i.at \div 1000) + expiresIn
                  THEN /\ last'.code = 200
                       /\ Given(last'.user, "username")
                             = Given(i.token, "username")
                  ELSE last'.code = 401 )
             /\ now + 1000 <= i.at + DayMs => last'.code = 200
             /\ now >= i.at + DayMs => last'.code = 401 ]_vars

\* A token has passed the gate in the last second of its day.
C18_Witness ==
    /\ last.op = "listApplications" /\ last.code = 200
    /\ Given(last.user, "username") = {"admin"}
    /\ \E i \in issued :
          /\ last.headers = Bearer(i.token)
          /\ now - i.at > DayMs - 1000

---------------------------------------------------------------------------
(* Properties of the submission (SpecSubmit: the body of every submission  *)
(* is recorded).                                                           *)

Submitted(resp) == resp.op = "postApplication"

\* C19 (as claimed): a submission whose name, email, phoneNumber, nickname and
\* accountName are present and not blank, and whose totalWin is an integer
\* >= 0, is answered 201 and adds exactly one Application, with status
\* pending, whatever else the body holds.
C19_AcceptsNonNegativeClaim ==
    [][ ( /\ Submitted(last')
          /\ \A f \in RequiredStrings :
                Has(last'.body, f) /\ last'.body[f] \notin {"", " "}
          /\ Has(last'.body, "totalWin") /\ last'.body.totalWin >= 0 )
        => /\ last'.code = 201
           /\ Len(applications') = Len(applications) + 1
           /\ \A i \in 1..Len(applications) : applications'[i] = applications[i]
           /\ applications'[Len(applications')].status = "pending" ]_vars

\* C20: a submission in which name, email, phoneNumber, nickname, accountName
\* or totalWin is missing is answered 400, adds no Application and changes
\* nothing else that is stored.
C20_MissingFieldRefused ==
    [][ ( /\ Submitted(last')
          /\ \E f \in RequiredStrings \cup {"totalWin"} : ~Has(last'.body, f) )
        => /\ last'.code = 400
           /\ applications' = applications
           /\ players' = players
           /\ nextPlayerId' = nextPlayerId ]_vars

\* A submission without totalWin has been refused while an application and a
\* player are stored.
C20_Witness ==
    /\ Submitted(last) /\ last.code = 400
    /\ ~Has(last.body, "totalWin")
    /\ \A f \in RequiredStrings : Has(last.body, f)
    /\ applications # <<>>
    /\ players # <<>>

---------------------------------------------------------------------------
(* Properties of the stores under every route (SpecGate).                  *)

\* C21: no step removes an Application or changes its place, its _id or any
\* of its fields other than status, and a step that changes the status of an
\* Application is a step of the review route PATCH /api/applications/:id.
C21_ApplicationsOnlyReviewed ==
    [][ applications' # applications =>
          /\ Len(applications') >= Len(applications)
          /\ \A i \in 1..Len(applications) :
                /\ Without(applications'[i], "status")
                      = Without(applications[i], "status")
                /\ applications'[i].status # applications[i].status
                      => last'.op = "patchApplication" ]_vars

\* Two applications are stored, the first reviewed and the second submitted
\* after the review.
C21_Witness ==
    /\ Len(applications) >= 2
    /\ applications[1].status = "rejected"
    /\ applications[2].status = "pending"
    /\ last.op = "postApplication" /\ last.code = 201

\* C22 (as claimed): whole requests handled one after the other (submissions,
\* admin player creations, reviews), no two stored Players have the same name.
C22_PlayerNamesUnique ==
    \A i \in 1..Len(players), j \in 1..Len(players) :
        players[i].name = players[j].name => i = j

---------------------------------------------------------------------------
(* Properties of the admin player routes (SpecStore, SpecPlayers: the id   *)
(* and the body of every request to them are recorded).                    *)

\* C23 (as claimed): every stored Player has a name that is not empty and a
\* totalWin that is an integer >= 0.
C23_PlayersWellFormed ==
    \A i \in 1..Len(players) :
        /\ players[i].name # ""
        /\ players[i].totalWin \in Nat

---------------------------------------------------------------------------
(* Properties of the leaderboard reads (SpecBoard: the query sent and the  *)
(* list returned are recorded).                                            *)

Descending(l) ==
    \A i \in 1..Len(l), j \in 1..Len(l) : i < j => l[i].totalWin >= l[j].totalWin

\* l holds stored players, none twice, and no stored player left out of l has
\* a greater totalWin than one in l.
LeadersOf(l, ps) ==
    /\ \A i \in 1..Len(l) : \E k \in 1..Len(ps) : l[i] = ps[k]
    /\ \A i \in 1..Len(l), j \in 1..Len(l) : l[i] = l[j] => i = j
    /\ \A k \in 1..Len(ps) :
          ( \A i \in 1..Len(l) : l[i] # ps[k] )
          => \A i \in 1..Len(l) : l[i].totalWin >= ps[k].totalWin

\* The first n entries of an ordering of ps by totalWin, greatest first.
FirstOfDescending(l, n, ps) ==
    /\ Len(l) = Min(n, Len(ps))
    /\ Descending(l)
    /\ LeadersOf(l, ps)

\* C24 (as claimed): GET /players answers with every stored Player, greatest
\* totalWin first; GET /players/top?limit=N, N a number >= 0, answers with the
\* first min(N, number of players) entries of such an ordering, and with the
\* first min(10, number of players) when no limit is sent.
C24_TopReturnsFirstN ==
    [][ /\ last'.op = "getPlayers"
           => FirstOfDescending(last'.list, Len(players), players)
        /\ last'.op = "getTop"
           => LET n == Number(last'.body, "limit")
              IN  /\ ~Has(last'.body, "limit")
                     => FirstOfDescending(last'.list, defaultLimit, players)
                  /\ \A k \in n :
                        k >= 0 => FirstOfDescending(last'.list, k, players) ]_vars

\* C24 (amended): as above for a limit N >= 1; a limit that is absent, 0, empty
\* or no number stands for 10, and a limit -N for N.
C24_TopReturnsLimited ==
    [][ /\ last'.op = "getPlayers"
           => FirstOfDescending(last'.list, Len(players), players)
        /\ last'.op = "getTop"
           => LET n == Number(last'.body, "limit")
              IN  /\ ( n = {} \/ n = {0} )
                     => FirstOfDescending(last'.list, defaultLimit, players)
                  /\ \A k \in n :
                        /\ k > 0 => FirstOfDescending(last'.list, k, players)
                        /\ k < 0 => FirstOfDescending(last'.list, -k, players) ]_vars

\* The top route, asked without a limit, has answered with 10 of 12 stored
\* players among which two have the same totalWin.
C24_Witness ==
    /\ last.op = "getTop" /\ last.body = NoFields
    /\ Len(players) = MaxBoard
    /\ Len(last.list) = defaultLimit
    /\ \E i \in 1..Len(players), j \in 1..Len(players) :
          i # j /\ players[i].totalWin = players[j].totalWin

\* A request to PATCH or DELETE /api/players/:id that passed the gate.
PlayerAddressed(resp) ==
    resp.op \in {"patchPlayer", "deletePlayer"} /\ resp.code # 401

\* Only the totalWin of the i-th player may differ between ps and qs.
OnlyTotalWinOf(ps, qs, i) ==
    /\ Len(qs) = Len(ps)
    /\ \A k \in 1..Len(ps) : k # i => qs[k] = ps[k]
    /\ Without(qs[i], "totalWin") = Without(ps[i], "totalWin")

\* C25 (as claimed): an authenticated PATCH or DELETE /api/players/:id whose id
\* matches no Player is answered 404 and leaves the Player collection as it
\* was; when the id matches, PATCH changes only that player's totalWin and
\* DELETE removes only that player.
C25_NoMatchIsNotFound ==
    [][ PlayerAddressed(last')
        => LET i == findById(players, last'.id)
           IN  IF i = 0
               THEN last'.code = 404 /\ players' = players
               ELSE IF last'.op = "patchPlayer"
               THEN OnlyTotalWinOf(players, players', i)
               ELSE players' = Remove(players, i) ]_vars

\* C25 (amended): the answer is 404 when the id is a well-formed ObjectId that
\* matches no Player and 400 when the id is not a well-formed ObjectId, and
\* the Player collection is left as it was; when the id matches, PATCH is
\* answered 200 and sets that player's totalWin to the one sent (none sent:
\* nothing changes), DELETE is answered 204 and removes that player, and
\* nothing else changes.
C25_NoMatchRefused ==
    [][ PlayerAddressed(last')
        => LET i == findById(players, last'.id)
           IN  IF i = 0
               THEN /\ last'.code = IF last'.id >= 1 THEN 404 ELSE 400
                    /\ players' = players
               ELSE IF last'.op = "patchPlayer"
               THEN /\ last'.code = 200
                    /\ OnlyTotalWinOf(players, players', i)
                    /\ Given(players'[i], "totalWin")
                         = IF Has(last'.body, "totalWin")
                           THEN { last'.body.totalWin }
                           ELSE { players[i].totalWin }
               ELSE /\ last'.code = 204
                    /\ players' = Remove(players, i) ]_vars

\* A player has been deleted while another of the same name stays stored, and
\* the id just deleted matches no Player.
C25_Witness ==
    /\ last.op = "deletePlayer" /\ last.code = 204
    /\ findById(players, last.id) = 0
    /\ \E k \in 1..Len(players) :
          players[k].name = "AceA" /\ players[k]._id > last.id

---------------------------------------------------------------------------
(* Login with credentials left out (SpecAuth).                             *)

\* C26 (as claimed): a login request whose body has no username or no
\* password is answered without a token and none is issued, whether the admin
\* credentials are configured or not.
C26_OmittedCredentialsRefused ==
    [][ ( /\ last'.op = "login"
          /\ ~Has(last'.body, "username") \/ ~Has(last'.body, "password") )
        => /\ last'.code = 401
           /\ last'.token = NoFields
           /\ issued' = issued ]_vars

---------------------------------------------------------------------------
(* Properties of the web client.                                           *)

\* The request a step of the client has sent.
Sending(op) ==
    /\ Len(inflight') = Len(inflight) + 1
    /\ inflight'[Len(inflight')].op = op

\* C27 (as claimed): the admin console sends a review request only for an
\* application that its list shows as pending, and only while no review
\* request it sent before is unanswered.
C27_OneReviewInFlight ==
    [][ Sending("patchApplication")
        => /\ Has(console.applications, "data")
           /\ \E k \in 1..Len(console.applications.data) :
                 /\ console.applications.data[k]._id = inflight'[Len(inflight')].id
                 /\ console.applications.data[k].status = "pending"
           /\ inflight = <<>> ]_vars


\* A step in which a request of the client is answered.
Answered == Len(inflight') = Len(inflight) - 1

\* C28: a response with status 401 leaves no token stored; a token comes to
\* be stored only by the response to a successful login, which stores the
\* token of that response; and every request is sent with the header
\* Authorization: 'Bearer ' followed by the stored token when a token is
\* stored, and without an Authorization header when none is.  So after a 401
\* no request carries the header until a successful login stores a token.
C28_TokenFollowsResponses ==
    [][ /\ ( Answered /\ last'.code = 401 ) => ~Has(localStorage', "token")
        /\ ( Has(localStorage', "token") /\ localStorage' # localStorage )
           => /\ Answered
              /\ last'.op = "login" /\ last'.code = 200
              /\ localStorage'.token = last'.token
        /\ Len(inflight') = Len(inflight) + 1
           => inflight'[Len(inflight')].headers
                = IF Has(localStorage, "token")
                  THEN [Authorization |-> <<"Bearer ", localStorage.token>>]
                  ELSE NoFields ]_vars

\* A request sent with a token that has expired since was answered 401, the
\* token is no longer stored, and a login is under way.
C28_Witness ==
    /\ last.op = "listApplications" /\ last.code = 401
    /\ Has(last.headers, "Authorization")
    /\ ~Has(localStorage, "token")
    /\ \E k \in 1..Len(inflight) : inflight[k].op = "login"


\* C29 (as claimed): the rank shown beside each row of the leaderboard page is
\* one plus the number of players of the selected time window whose totalWin
\* is strictly greater than the row's.
C29_RankIsStanding ==
    page.open =>
      \A k \in 1..Len(paginatedPlayers(page)) :
         rankShown(page, k)
           = 1 + Cardinality({ j \in 1..Len(data(page)) :
                   data(page)[j].totalWin > paginatedPlayers(page)[k].totalWin })

\* C30 (as claimed): currentPage is within 1..max(1, totalPages), and the
\* page shows a row whenever the filtered list has one.
C30_PageInRange ==
    page.open =>
      /\ page.currentPage \in 1..Max(1, totalPages(page))
      /\ filteredAndSortedPlayers(page) # <<>> => paginatedPlayers(page) # <<>>

=============================================================================
